---- MODULE Spec2Model ----
(***************************************************************************)
(* Scheduling core of gymbot: CalendarManager (per-user lock registry,     *)
(* slot suggestion, batch event commit with rollback) of                   *)
(* src/src/tools/calendar/calendar_manager.py, called by concurrent        *)
(* threads, and the chat handlers of src/src/interfaces/telegram_bot.py    *)
(* that construct it.                                                      *)
(*                                                                         *)
(* All instants are seconds.  The external calendar is a set of events;    *)
(* an event identifier is the pair <<caller, index>> of the insert that    *)
(* created it (the server hands out identifiers that never collide).  A    *)
(* timed event carries "dateTime" values with a UTC offset, an all-day     *)
(* event carries "date" values; datetime.fromisoformat turns the first     *)
(* into timezone-aware and the second into naive datetimes.                *)
(***************************************************************************)
EXTENDS Integers, Sequences, FiniteSets, TLC

\* ------------------------------------------------------------------ bounds
MaxBatch == 3      \* longest workout_times / preferred_times list
MaxUpdates == 6    \* chat updates the bot handles

\* ------------------------------------------------------- program constants
cleanup_threshold == 3600
default_days_ahead == 7

\* Two concurrent callers of one CalendarManager, each making one call.
Procs == {1, 2}
\* Two Telegram user ids: calls of the same user and of different users.
Users == {1, 2}
None == 0          \* "no thread" / "no lock": not a member of Procs

\* The instants time() is read at: the start, exactly one threshold later and
\* one second after that.
Instants == {0, cleanup_threshold, cleanup_threshold + 1}

\* The slot of day i: 09:00-10:00 of that day (the chat handler asks for one
\* hour at the same HH:MM on consecutive days).
SlotOf(i) == [start |-> i * 86400 + 32400, end |-> i * 86400 + 36000]

\* workout_times / preferred_times of a call: the first n daily slots.
Slots(n) == [i \in 1..n |-> SlotOf(i - 1)]

\* An event somebody else put on the calendar: day 1, 09:30-09:45.
ThirdPartyEvent ==
    [id |-> <<0, 0>>, start |-> 86400 + 34200, end |-> 86400 + 35100,
     aware |-> TRUE]

\* The two GPTAgent objects WorkoutPlannerHandler.__init__ constructs.
Agents == {"trainer", "profiler"}

\* No create_workout_plan call / no get_credentials call has ended yet.
NoPlan == [status |-> "none", cause |-> "none", workouts |-> 0,
           duration_weeks |-> 0, notes |-> "none"]
NoCredentials == [status |-> "none", creds |-> "none"]

NoError == [type |-> "none", call |-> "none", index |-> 0]
HttpError(call, i) == [type |-> "HttpError", call |-> call, index |-> i]
AssertionError == [type |-> "AssertionError", call |-> "none", index |-> 0]
TypeError == [type |-> "TypeError", call |-> "none", index |-> 0]
BodyError(i) == [type |-> "Exception", call |-> "body", index |-> i]

VARIABLES
    clock,            \* time()
    user_locks,       \* CalendarManager._user_locks: user id -> (lock, last used)
    operation_lock,   \* CalendarManager._operation_lock: holder or None
    holder,           \* per-user Lock objects: lock id -> holder or None
    calendar,         \* events on the external calendar
    pc,               \* position of each caller
    op,               \* "commit" | "suggest" | "none"
    user,             \* user_id argument
    times,            \* workout_times / preferred_times argument
    plan_len,         \* len(workout_plan.workouts)
    days_ahead,       \* days_ahead argument: <<>> is None, <<d>> is d
    current_time,     \* local of _get_user_lock (0 outside the call)
    user_lock,        \* local user_lock: the lock id obtained
    event_ids,        \* accumulator of create_workout_events
    rb,               \* position of the rollback loop
    error,            \* exception being handled / raised to the caller
    status,           \* "none" | "running" | "returned" | "raised"
    result,           \* value returned to the caller
    busy_times,       \* local of suggest_workout_times
    inserts,          \* number of insert calls issued by the caller
    deletes,          \* identifiers of the delete calls issued, in order
    delete_failed,    \* number of delete calls that raised
    queries,          \* number of list calls issued by the caller
    user_data,        \* context.user_data of each chat user (a dict)
    managers,         \* the CalendarManager objects the handlers constructed
    replies,          \* last reply sent to each chat user
    updates,          \* number of chat updates handled
    conversation_context,  \* GPTAgent.conversation_context of each agent
    calls,            \* number of get_response calls made so far
    plan_result,      \* outcome of each user's last create_workout_plan call
    tokens,           \* the token file of each user
    credentials       \* outcome of each user's last get_credentials call

vars == <<clock, user_locks, operation_lock, holder, calendar, pc, op,
          user, times, plan_len, days_ahead, current_time, user_lock,
          event_ids, rb, error, status, result, busy_times, inserts, deletes,
          delete_failed, queries, user_data, managers, replies, updates,
          conversation_context, calls, plan_result, tokens, credentials>>

registry == <<user_locks, operation_lock>>
args == <<op, user, times, plan_len, days_ahead>>
commit_locals == <<event_ids, rb, inserts, deletes, delete_failed, queries>>
chat == <<user_data, managers, replies, updates>>
planner == <<conversation_context, calls, plan_result>>
auth == <<tokens, credentials>>
bot == <<chat, planner, auth>>
core == <<clock, registry, holder, calendar, pc, args, current_time, user_lock,
          commit_locals, error, status, result, busy_times>>

Init ==
    /\ clock = 0
    /\ user_locks = <<>>
    /\ operation_lock = None
    /\ holder = [l \in Procs |-> None]
    /\ calendar = {ThirdPartyEvent}
    /\ pc = [p \in Procs |-> "idle"]
    /\ op = [p \in Procs |-> "none"]
    /\ user = [p \in Procs |-> None]
    /\ times = [p \in Procs |-> <<>>]
    /\ plan_len = [p \in Procs |-> 0]
    /\ days_ahead = [p \in Procs |-> <<>>]
    /\ current_time = [p \in Procs |-> 0]
    /\ user_lock = [p \in Procs |-> None]
    /\ event_ids = [p \in Procs |-> <<>>]
    /\ rb = [p \in Procs |-> 0]
    /\ error = [p \in Procs |-> NoError]
    /\ status = [p \in Procs |-> "none"]
    /\ result = [p \in Procs |-> <<>>]
    /\ busy_times = [p \in Procs |-> <<>>]
    /\ inserts = [p \in Procs |-> 0]
    /\ deletes = [p \in Procs |-> <<>>]
    /\ delete_failed = [p \in Procs |-> 0]
    /\ queries = [p \in Procs |-> 0]
    /\ user_data = [u \in Users |-> <<>>]
    /\ managers = <<>>
    /\ replies = [u \in Users |-> "none"]
    /\ updates = 0
    /\ conversation_context = [a \in Agents |-> [u \in Users |-> <<>>]]
    /\ calls = 0
    /\ plan_result = [u \in Users |-> NoPlan]
    /\ tokens = [u \in Users |-> "missing"]
    /\ credentials = [u \in Users |-> NoCredentials]

\* ---------------------------------------------------------- lock registry

\* A sweep that also drops the entries idle for exactly the threshold.
CleanupOldLocksAtThreshold(locks, now) ==
    [u \in {v \in DOMAIN locks : ~(now - locks[v].last >= cleanup_threshold)}
        |-> locks[u]]

\* _cleanup_old_locks: drop every entry idle for more than the threshold.
CleanupOldLocks(locks, now) ==
    [u \in {v \in DOMAIN locks : ~(now - locks[v].last > cleanup_threshold)}
        |-> locks[u]]

\* A registry whose new entries share the lock of an entry already there.
TouchShared(locks, u, fresh, now) ==
    IF u \notin DOMAIN locks
    THEN [v \in DOMAIN locks \cup {u} |->
            IF v = u
            THEN [lock |-> IF DOMAIN locks = {} THEN fresh
                           ELSE locks[CHOOSE w \in DOMAIN locks : TRUE].lock,
                  last |-> now]
            ELSE locks[v]]
    ELSE [locks EXCEPT ![u] = [lock |-> locks[u].lock, last |-> now]]

\* A registry that stamps every entry with the time of the request.
TouchAll(locks, u, fresh, now) ==
    [v \in DOMAIN locks \cup {u} |->
        IF v \in DOMAIN locks THEN [lock |-> locks[v].lock, last |-> now]
        ELSE [lock |-> fresh, last |-> now]]

\* A registry that stores a new lock on every request.
TouchAlwaysFresh(locks, u, fresh, now) ==
    [v \in DOMAIN locks \cup {u} |->
        IF v = u THEN [lock |-> fresh, last |-> now] ELSE locks[v]]

\* Lines 55-60: create the entry (a fresh Lock, named after its creator) or
\* keep the lock and replace the timestamp.
Touch(locks, u, fresh, now) ==
    IF u \notin DOMAIN locks
    THEN [v \in DOMAIN locks \cup {u} |->
            IF v = u THEN [lock |-> fresh, last |-> now] ELSE locks[v]]
    ELSE [locks EXCEPT ![u] = [lock |-> locks[u].lock, last |-> now]]

\* A critical section that sweeps the other users' entries only, so that a
\* stale entry of the caller's user is refreshed and not replaced.
RegistryAfterReviving(locks, u, fresh, now) ==
    Touch([v \in {w \in DOMAIN locks :
                    w = u \/ ~(now - locks[w].last > cleanup_threshold)}
              |-> locks[v]], u, fresh, now)

\* The body of the critical section of _get_user_lock: sweep, then touch.
RegistryAfter(locks, u, fresh, now) ==
    Touch(CleanupOldLocks(locks, now), u, fresh, now)

\* time() advances.
Tick(t) ==
    /\ t > clock
    /\ clock' = t
    /\ UNCHANGED <<bot, registry, holder, calendar, pc, args, current_time,
                   user_lock, commit_locals, error, status, result, busy_times>>

\* create_workout_events without the assertion of line 129.
CreateWorkoutEventsUnchecked(p, u, n, m) ==
    /\ pc[p] = "idle"
    /\ op' = [op EXCEPT ![p] = "commit"]
    /\ user' = [user EXCEPT ![p] = u]
    /\ times' = [times EXCEPT ![p] = Slots(n)]
    /\ plan_len' = [plan_len EXCEPT ![p] = m]
    /\ pc' = [pc EXCEPT ![p] = "oplock"]
    /\ status' = [status EXCEPT ![p] = "running"]
    /\ current_time' = [current_time EXCEPT ![p] = clock]
    /\ UNCHANGED <<bot, clock, registry, holder, calendar, days_ahead,
                   user_lock, commit_locals, error, result, busy_times>>

\* create_workout_events is called: the assertion of line 129, line 130, and
\* the first statement of _get_user_lock (line 50), which reads the clock
\* before the registry is locked.
CreateWorkoutEvents(p, u, n, m) ==
    /\ pc[p] = "idle"
    /\ op' = [op EXCEPT ![p] = "commit"]
    /\ user' = [user EXCEPT ![p] = u]
    /\ times' = [times EXCEPT ![p] = Slots(n)]
    /\ plan_len' = [plan_len EXCEPT ![p] = m]
    /\ IF n = m
       THEN /\ pc' = [pc EXCEPT ![p] = "oplock"]
            /\ status' = [status EXCEPT ![p] = "running"]
            /\ current_time' = [current_time EXCEPT ![p] = clock]
            /\ error' = error
       ELSE /\ pc' = [pc EXCEPT ![p] = "done"]
            /\ status' = [status EXCEPT ![p] = "raised"]
            /\ error' = [error EXCEPT ![p] = AssertionError]
            /\ UNCHANGED current_time
    /\ UNCHANGED <<bot, clock, registry, holder, calendar, days_ahead,
                   user_lock, commit_locals, result, busy_times>>

\* suggest_workout_times is called: lines 200-201 and the clock read of
\* _get_user_lock (line 50).
SuggestWorkoutTimes(p, u, n, d) ==
    /\ pc[p] = "idle"
    /\ op' = [op EXCEPT ![p] = "suggest"]
    /\ user' = [user EXCEPT ![p] = u]
    /\ times' = [times EXCEPT ![p] = Slots(n)]
    /\ days_ahead' = [days_ahead EXCEPT ![p] = d]
    /\ pc' = [pc EXCEPT ![p] = "oplock"]
    /\ status' = [status EXCEPT ![p] = "running"]
    /\ current_time' = [current_time EXCEPT ![p] = clock]
    /\ UNCHANGED <<bot, clock, registry, holder, calendar, plan_len,
                   user_lock, commit_locals, error, result, busy_times>>

\* _get_user_lock, line 52: enter the registry-wide critical section.
AcquireOperationLock(p) ==
    /\ pc[p] = "oplock"
    /\ operation_lock = None
    /\ operation_lock' = p
    /\ pc' = [pc EXCEPT ![p] = "registry"]
    /\ UNCHANGED <<bot, clock, user_locks, holder, calendar, args,
                   current_time, user_lock, commit_locals, error, status,
                   result, busy_times>>

\* A _get_user_lock whose caller goes on inside the critical section.
GetUserLockKeeping(p) ==
    /\ pc[p] = "registry"
    /\ operation_lock = p
    /\ user_locks' = RegistryAfter(user_locks, user[p], p, current_time[p])
    /\ user_lock' = [user_lock EXCEPT ![p] = user_locks'[user[p]].lock]
    /\ operation_lock' = operation_lock
    /\ current_time' = [current_time EXCEPT ![p] = 0]
    /\ pc' = [pc EXCEPT ![p] = "lock"]
    /\ UNCHANGED <<bot, clock, holder, calendar, args, commit_locals, error,
                   status, result, busy_times>>

\* _get_user_lock, lines 54-62: sweep, create or refresh, return the lock and
\* leave the critical section.
GetUserLock(p) ==
    /\ pc[p] = "registry"
    /\ operation_lock = p
    /\ user_locks' = RegistryAfter(user_locks, user[p], p, current_time[p])
    /\ user_lock' = [user_lock EXCEPT ![p] = user_locks'[user[p]].lock]
    /\ operation_lock' = None
    /\ current_time' = [current_time EXCEPT ![p] = 0]
    /\ pc' = [pc EXCEPT ![p] = "lock"]
    /\ UNCHANGED <<bot, clock, holder, calendar, args, commit_locals, error,
                   status, result, busy_times>>

\* "with user_lock:" of lines 135 and 207: blocks until the lock is free.
AcquireUserLock(p) ==
    /\ pc[p] = "lock"
    /\ holder[user_lock[p]] = None
    /\ holder' = [holder EXCEPT ![user_lock[p]] = p]
    /\ pc' = [pc EXCEPT ![p] = IF op[p] = "commit" THEN "insert" ELSE "list"]
    /\ UNCHANGED <<bot, clock, registry, calendar, args, current_time,
                   user_lock, commit_locals, error, status, result, busy_times>>

\* ------------------------------------------------- create_workout_events

InsertOutcomes == {"ok", "fail", "lost", "body"}
DeleteOutcomes == {"ok", "fail"}
ListOutcomes == {"ok", "fail"}

\* An event body that always describes the first workout of the plan.
EventOfFirstWorkout(p, k) ==
    [id |-> <<p, k>>, start |-> times[p][k + 1].start,
     end |-> times[p][k + 1].end, aware |-> TRUE, workout |-> 0]

\* The event of index k (0-based) of caller p's batch: lines 137-139 build it
\* from workout_times[k] and workout_plan.workouts[k] ("workout" names the
\* plan day the description is made of).
EventOf(p, k) ==
    [id |-> <<p, k>>, start |-> times[p][k + 1].start,
     end |-> times[p][k + 1].end, aware |-> TRUE, workout |-> k]

\* Line 147: the accumulator after the insert returned identifier id.
Accumulate(ids, id) == Append(ids, id)

\* A rollback that also removes the event found in the slot of the failure.
RollbackTargetsWithForeign(ids) == Append(ids, ThirdPartyEvent.id)

\* Line 152: the identifiers the rollback loop walks over.
RollbackTargets(ids) == ids

\* A rollback loop that gives up at the first delete that raises.
NextRollbackStopping(j, n, failed) == IF failed THEN n ELSE j + 1

\* Lines 153-158: the rollback loop goes on to the next identifier whether or
\* not the delete raised.
NextRollback(j, n, failed) == j + 1

\* Line 161: the bare raise re-raises the exception of line 149, also after
\* the handler of line 157 has handled delete errors.
Reraised(original, failures) == original

\* A loop that tries a failed insert once more before giving up.
InsertEventRetrying(p, outcome) ==
    /\ pc[p] = "insert"
    /\ Len(event_ids[p]) < Len(times[p])
    /\ LET k == Len(event_ids[p]) IN
       /\ inserts' = [inserts EXCEPT ![p] = IF outcome = "body" THEN @ ELSE @ + 1]
       /\ calendar' = IF outcome \in {"fail", "body"} THEN calendar
                      ELSE calendar \cup {EventOf(p, k)}
       /\ IF outcome = "ok"
          THEN /\ event_ids' = [event_ids EXCEPT ![p] = Accumulate(@, <<p, k>>)]
               /\ UNCHANGED <<holder, pc, error>>
          ELSE /\ error' = [error EXCEPT ![p] =
                     IF outcome = "fail" THEN HttpError("insert", k)
                     ELSE IF outcome = "body" THEN BodyError(k)
                     ELSE [type |-> "TimeoutError", call |-> "insert", index |-> k]]
               /\ IF error[p] = NoError /\ outcome # "body"
                  THEN UNCHANGED <<holder, pc>>
                  ELSE /\ holder' = [holder EXCEPT ![user_lock[p]] = None]
                       /\ pc' = [pc EXCEPT ![p] = "relock"]
               /\ UNCHANGED event_ids
    /\ UNCHANGED <<bot, clock, registry, args, current_time, user_lock, rb,
                   deletes, delete_failed, queries, status, result,
                   busy_times>>

\* A loop that records the identifier of an insert before it learns that the
\* call raised, so that the rollback reaches an event the server created.
InsertEventRecordingLost(p, outcome) ==
    /\ pc[p] = "insert"
    /\ Len(event_ids[p]) < Len(times[p])
    /\ LET k == Len(event_ids[p]) IN
       /\ inserts' = [inserts EXCEPT ![p] = IF outcome = "body" THEN @ ELSE @ + 1]
       /\ calendar' = IF outcome \in {"fail", "body"} THEN calendar
                      ELSE calendar \cup {EventOf(p, k)}
       /\ IF outcome = "ok"
          THEN /\ event_ids' = [event_ids EXCEPT ![p] = Accumulate(@, <<p, k>>)]
               /\ UNCHANGED <<holder, pc, error>>
          ELSE /\ error' = [error EXCEPT ![p] =
                     IF outcome = "fail" THEN HttpError("insert", k)
                     ELSE IF outcome = "body" THEN BodyError(k)
                     ELSE [type |-> "TimeoutError", call |-> "insert", index |-> k]]
               /\ holder' = [holder EXCEPT ![user_lock[p]] = None]
               /\ pc' = [pc EXCEPT ![p] = "relock"]
               /\ event_ids' = [event_ids EXCEPT ![p] =
                     IF outcome = "lost" THEN Accumulate(@, <<p, k>>) ELSE @]
    /\ UNCHANGED <<bot, clock, registry, args, current_time, user_lock, rb,
                   deletes, delete_failed, queries, status, result,
                   busy_times>>

\* One pass of the loop of lines 136-147.  "ok": the event is created and its
\* identifier returned.  "fail": the call raises and nothing is created.
\* "lost": the server creates the event but the call raises (a timeout after
\* the request was applied, or a response from which line 147 reads no id).
\* "body": _create_event_body (lines 137-139) raises, no insert is issued.
\* An exception leaves the with block of line 135, which releases the lock,
\* and enters the handler of line 149.
InsertEvent(p, outcome) ==
    /\ pc[p] = "insert"
    /\ Len(event_ids[p]) < Len(times[p])
    /\ LET k == Len(event_ids[p]) IN
       /\ inserts' = [inserts EXCEPT ![p] = IF outcome = "body" THEN @ ELSE @ + 1]
       /\ calendar' = IF outcome \in {"fail", "body"} THEN calendar
                      ELSE calendar \cup {EventOf(p, k)}
       /\ IF outcome = "ok"
          THEN /\ event_ids' = [event_ids EXCEPT ![p] = Accumulate(@, <<p, k>>)]
               /\ UNCHANGED <<holder, pc, error>>
          ELSE /\ error' = [error EXCEPT ![p] =
                     IF outcome = "fail" THEN HttpError("insert", k)
                     ELSE IF outcome = "body" THEN BodyError(k)
                     ELSE [type |-> "TimeoutError", call |-> "insert", index |-> k]]
               /\ holder' = [holder EXCEPT ![user_lock[p]] = None]
               /\ pc' = [pc EXCEPT ![p] = "relock"]
               /\ UNCHANGED event_ids
    /\ UNCHANGED <<bot, clock, registry, args, current_time, user_lock, rb,
                   deletes, delete_failed, queries, status, result,
                   busy_times>>

\* A return that leaves the lock of line 135 locked.
CommitReturnKeeping(p) ==
    /\ pc[p] = "insert"
    /\ Len(event_ids[p]) = Len(times[p])
    /\ holder' = holder
    /\ result' = [result EXCEPT ![p] = event_ids[p]]
    /\ status' = [status EXCEPT ![p] = "returned"]
    /\ pc' = [pc EXCEPT ![p] = "done"]
    /\ UNCHANGED <<bot, clock, registry, calendar, args, current_time,
                   user_lock, commit_locals, error, busy_times>>

\* The loop is over: the with block releases the lock, line 163 returns.
CommitReturn(p) ==
    /\ pc[p] = "insert"
    /\ Len(event_ids[p]) = Len(times[p])
    /\ holder' = [holder EXCEPT ![user_lock[p]] = None]
    /\ result' = [result EXCEPT ![p] = event_ids[p]]
    /\ status' = [status EXCEPT ![p] = "returned"]
    /\ pc' = [pc EXCEPT ![p] = "done"]
    /\ UNCHANGED <<bot, clock, registry, calendar, args, current_time,
                   user_lock, commit_locals, error, busy_times>>

\* A handler that rolls back without taking the lock again.
ReacquireUserLockSkipped(p) ==
    /\ pc[p] = "relock"
    /\ holder' = holder
    /\ pc' = [pc EXCEPT ![p] = "rollback"]
    /\ UNCHANGED <<bot, clock, registry, calendar, args, current_time,
                   user_lock, commit_locals, error, status, result, busy_times>>

\* Line 151: the handler takes the same lock object again.
ReacquireUserLock(p) ==
    /\ pc[p] = "relock"
    /\ holder[user_lock[p]] = None
    /\ holder' = [holder EXCEPT ![user_lock[p]] = p]
    /\ pc' = [pc EXCEPT ![p] = "rollback"]
    /\ UNCHANGED <<bot, clock, registry, calendar, args, current_time,
                   user_lock, commit_locals, error, status, result, busy_times>>

\* One pass of the loop of lines 152-158: a delete that raises is logged.
DeleteEvent(p, outcome) ==
    /\ pc[p] = "rollback"
    /\ rb[p] < Len(RollbackTargets(event_ids[p]))
    /\ LET id == RollbackTargets(event_ids[p])[rb[p] + 1] IN
       /\ deletes' = [deletes EXCEPT ![p] = Append(@, id)]
       /\ calendar' = IF outcome = "ok"
                      THEN {e \in calendar : e.id # id}
                      ELSE calendar
       /\ delete_failed' = [delete_failed EXCEPT ![p] =
                               IF outcome = "ok" THEN @ ELSE @ + 1]
       /\ rb' = [rb EXCEPT ![p] =
                    NextRollback(@, Len(RollbackTargets(event_ids[p])),
                                 outcome # "ok")]
    /\ UNCHANGED <<bot, clock, registry, holder, pc, args, current_time,
                   user_lock, event_ids, inserts, queries, error, status,
                   result, busy_times>>

\* A handler that raises with the lock of line 151 still locked.
RollbackRaiseKeeping(p) ==
    /\ pc[p] = "rollback"
    /\ rb[p] >= Len(RollbackTargets(event_ids[p]))
    /\ holder' = holder
    /\ error' = [error EXCEPT ![p] = Reraised(@, delete_failed[p])]
    /\ status' = [status EXCEPT ![p] = "raised"]
    /\ pc' = [pc EXCEPT ![p] = "done"]
    /\ UNCHANGED <<bot, clock, registry, calendar, args, current_time,
                   user_lock, commit_locals, result, busy_times>>

\* The rollback loop is over: the lock is released, lines 160-161 raise.
RollbackRaise(p) ==
    /\ pc[p] = "rollback"
    /\ rb[p] >= Len(RollbackTargets(event_ids[p]))
    /\ holder' = [holder EXCEPT ![user_lock[p]] = None]
    /\ error' = [error EXCEPT ![p] = Reraised(@, delete_failed[p])]
    /\ status' = [status EXCEPT ![p] = "raised"]
    /\ pc' = [pc EXCEPT ![p] = "done"]
    /\ UNCHANGED <<bot, clock, registry, calendar, args, current_time,
                   user_lock, commit_locals, result, busy_times>>

\* ------------------------------------------------- suggest_workout_times

\* Line 200: "days_ahead or default" (None and 0 are both falsy).
DaysAhead(d) == IF d = <<>> \/ d[1] = 0 THEN default_days_ahead ELSE d[1]

\* events().list(timeMin, timeMax, orderBy="startTime"): the events that end
\* after timeMin and start before timeMax, by start time.
RECURSIVE ByStartTime(_)
ByStartTime(events) ==
    IF events = {} THEN <<>>
    ELSE LET first == CHOOSE e \in events :
                          \A f \in events : e.start <= f.start
         IN <<first>> \o ByStartTime(events \ {first})

\* A query that returns every event of the calendar, whatever the window.
ListItemsUnbounded(events, time_min, time_max) == ByStartTime(events)

ListItems(events, time_min, time_max) ==
    ByStartTime({e \in events : e.end > time_min /\ e.start < time_max})

\* Lines 228-238: the (start, end) pair of every item, in the order of the
\* items; "aware" tells whether fromisoformat read a "dateTime" or a "date".
BusyTimes(events, time_min, time_max) ==
    LET items == ListItems(events, time_min, time_max) IN
    [i \in 1..Len(items) |->
        [start |-> items[i].start, end |-> items[i].end,
         aware |-> items[i].aware]]

\* An overlap test in which intervals that only touch count as overlapping.
OverlapsClosed(start, end, b) == start <= b.end /\ end >= b.start

\* Line 280: "start < busy_end and end > busy_start".  Lines 274-277 have
\* made start and end timezone-aware (a naive value keeps its reading and is
\* taken as UTC), so the comparison is one of instants.
Overlaps(start, end, b) == start < b.end /\ end > b.start

\* any() of line 279 walks busy_times in order and stops at the first pair
\* that overlaps, or at the first naive pair: comparing the aware start with
\* a naive busy_end raises TypeError.  0 when it reaches the end of the list.
FirstDeciding(start, end, busy) ==
    LET Decides(i) == ~busy[i].aware \/ Overlaps(start, end, busy[i]) IN
    IF \E i \in 1..Len(busy) : Decides(i)
    THEN CHOOSE i \in 1..Len(busy) :
             Decides(i) /\ \A j \in 1..(i - 1) : ~Decides(j)
    ELSE 0

\* _is_time_slot_available raises TypeError.
AvailabilityRaises(start, end, busy) ==
    LET i == FirstDeciding(start, end, busy) IN i # 0 /\ ~busy[i].aware

\* _is_time_slot_available, lines 279-281, when it returns.
IsTimeSlotAvailable(start, end, busy) ==
    FirstDeciding(start, end, busy) = 0

\* A filter that returns the preferred slots as they came.
SuggestedTimesUnfiltered(preferred, busy) == preferred

\* Lines 240-245.
SuggestedTimes(preferred, busy) ==
    SelectSeq(preferred, LAMBDA s : IsTimeSlotAvailable(s.start, s.end, busy))

\* A query that is issued a second time when it fails.
ListEventsRetrying(p, outcome) ==
    /\ pc[p] = "list"
    /\ queries' = [queries EXCEPT ![p] = IF outcome = "ok" THEN @ + 1 ELSE @ + 2]
    /\ IF outcome = "ok"
       THEN /\ busy_times' = [busy_times EXCEPT ![p] =
                   BusyTimes(calendar, clock,
                             clock + DaysAhead(days_ahead[p]) * 86400)]
            /\ pc' = [pc EXCEPT ![p] = "filter"]
            /\ UNCHANGED <<holder, error, status>>
       ELSE /\ holder' = [holder EXCEPT ![user_lock[p]] = None]
            /\ error' = [error EXCEPT ![p] = HttpError("list", 0)]
            /\ status' = [status EXCEPT ![p] = "raised"]
            /\ pc' = [pc EXCEPT ![p] = "done"]
            /\ UNCHANGED busy_times
    /\ UNCHANGED <<bot, clock, registry, calendar, args, current_time,
                   user_lock, event_ids, rb, inserts, deletes, delete_failed,
                   result>>

\* Lines 208-238 under the lock: read the clock, query, build busy_times.  A
\* failing query leaves the with block (lock released) and is re-raised by
\* the handlers of lines 249-254.
ListEvents(p, outcome) ==
    /\ pc[p] = "list"
    /\ queries' = [queries EXCEPT ![p] = @ + 1]
    /\ IF outcome = "ok"
       THEN /\ busy_times' = [busy_times EXCEPT ![p] =
                   BusyTimes(calendar, clock,
                             clock + DaysAhead(days_ahead[p]) * 86400)]
            /\ pc' = [pc EXCEPT ![p] = "filter"]
            /\ UNCHANGED <<holder, error, status>>
       ELSE /\ holder' = [holder EXCEPT ![user_lock[p]] = None]
            /\ error' = [error EXCEPT ![p] = HttpError("list", 0)]
            /\ status' = [status EXCEPT ![p] = "raised"]
            /\ pc' = [pc EXCEPT ![p] = "done"]
            /\ UNCHANGED busy_times
    /\ UNCHANGED <<bot, clock, registry, calendar, args, current_time,
                   user_lock, event_ids, rb, inserts, deletes, delete_failed,
                   result>>

\* A suggest call that ends with the lock of line 207 still locked.
SuggestReturnKeeping(p) ==
    /\ pc[p] = "filter"
    /\ IF \E i \in 1..Len(times[p]) :
             AvailabilityRaises(times[p][i].start, times[p][i].end,
                                busy_times[p])
       THEN /\ error' = [error EXCEPT ![p] = TypeError]
            /\ status' = [status EXCEPT ![p] = "raised"]
            /\ UNCHANGED result
       ELSE /\ result' = [result EXCEPT ![p] =
                   SuggestedTimes(times[p], busy_times[p])]
            /\ status' = [status EXCEPT ![p] = "returned"]
            /\ UNCHANGED error
    /\ holder' = holder
    /\ pc' = [pc EXCEPT ![p] = "done"]
    /\ UNCHANGED <<bot, clock, registry, calendar, args, current_time,
                   user_lock, commit_locals, busy_times>>

\* Lines 240-247: filter the preferred slots, release the lock, return.  A
\* TypeError of _is_time_slot_available leaves the loop and the with block
\* (lock released) and is re-raised by the handler of lines 252-254.
SuggestReturn(p) ==
    /\ pc[p] = "filter"
    /\ IF \E i \in 1..Len(times[p]) :
             AvailabilityRaises(times[p][i].start, times[p][i].end,
                                busy_times[p])
       THEN /\ error' = [error EXCEPT ![p] = TypeError]
            /\ status' = [status EXCEPT ![p] = "raised"]
            /\ UNCHANGED result
       ELSE /\ result' = [result EXCEPT ![p] =
                   SuggestedTimes(times[p], busy_times[p])]
            /\ status' = [status EXCEPT ![p] = "returned"]
            /\ UNCHANGED error
    /\ holder' = [holder EXCEPT ![user_lock[p]] = None]
    /\ pc' = [pc EXCEPT ![p] = "done"]
    /\ UNCHANGED <<bot, clock, registry, calendar, args, current_time,
                   user_lock, commit_locals, busy_times>>

\* ----------------------------------------------------- language-model agent
\* (src/src/handlers/handler.py)

maxlen == 5        \* deque(maxlen=5) of line 38
MaxCalls == 6      \* get_response calls made in one run

\* A message of a conversation, named by the call that appended it.
Message(role, n) == [role |-> role, n |-> n]

\* keep_conversation_context of lines 109-114.
Keeps(a) == a = "trainer"

\* A deque that grows without limit.
DequeAppendUnbounded(q, m) == Append(q, m)

\* deque(maxlen=5).append: a full deque drops its leftmost item.
DequeAppend(q, m) ==
    IF Len(q) < maxlen THEN Append(q, m) ELSE Append(Tail(q), m)

\* get_response, lines 46-92: the user message is appended before the
\* request; the assistant message is appended when the request succeeded and
\* the agent keeps its context.  A failed request is re-raised and leaves the
\* user message in place.
ContextAfter(q, n, ok, keep) ==
    LET asked == DequeAppend(q, Message("user", n)) IN
    IF ok /\ keep THEN DequeAppend(asked, Message("assistant", n)) ELSE asked

\* A reset that empties the context of every user.
ResetEvery(ctx, u) == [v \in DOMAIN ctx |-> <<>>]

\* reset_memory, line 44: conversation_context[user_id].clear().
ResetOne(ctx, u) == [ctx EXCEPT ![u] = <<>>]

\* GPTAgent.get_response(user_id, ...) on agent a.
GetResponse(a, u, ok) ==
    /\ calls < MaxCalls
    /\ calls' = calls + 1
    /\ conversation_context' =
           [conversation_context EXCEPT ![a][u] =
               ContextAfter(@, calls + 1, ok, Keeps(a))]
    /\ UNCHANGED <<core, chat, auth, plan_result>>

\* GPTAgent.reset_memory(user_id) on agent a.
ResetMemory(a, u) ==
    /\ conversation_context' =
           [conversation_context EXCEPT ![a] = ResetOne(@, u)]
    /\ UNCHANGED <<core, chat, auth, calls, plan_result>>

\* What the language model answers to the prompt of create_workout_plan: the
\* request raises, the text is not JSON, the JSON lacks a key or holds a
\* value the plan types reject, or it describes a plan of some days.
LlmFailures == {"raises", "not_json", "bad_schema"}

\* The plan of _create_fallback_workout_plan, lines 283-424: three days
\* (line 421), four weeks (line 422), fixed notes (line 423).
FallbackPlan ==
    [workouts |-> 3, duration_weeks |-> 4, notes |-> "start light"]

PlanReplies ==
    [kind : LlmFailures, days : {0}, notes : {"none"}]
    \cup [kind : {"plan"}, days : 1..MaxBatch,
          notes : {"as generated", FallbackPlan.notes}]

\* A create_workout_plan that lets the failure reach its caller.
PlanOfReraising(r) ==
    IF r.kind = "plan"
    THEN [status |-> "returned", cause |-> "generated", workouts |-> r.days,
          duration_weeks |-> 4, notes |-> r.notes]
    ELSE [status |-> "raised", cause |-> r.kind, workouts |-> 0,
          duration_weeks |-> 0, notes |-> "none"]

\* create_workout_plan, lines 180-281: the plan built from the answer (line
\* 265: always four weeks), or the fallback plan from either handler (lines
\* 270-281).  "cause" is what the log line says; the caller gets the plan.
PlanOf(r) ==
    IF r.kind = "plan"
    THEN [status |-> "returned", cause |-> "generated", workouts |-> r.days,
          duration_weeks |-> 4, notes |-> r.notes]
    ELSE [status |-> "returned", cause |-> r.kind,
          workouts |-> FallbackPlan.workouts,
          duration_weeks |-> FallbackPlan.duration_weeks,
          notes |-> FallbackPlan.notes]

\* WorkoutPlannerHandler.create_workout_plan(user_id, user_profile): one
\* get_response of the trainer agent, then the plan.
PlannerCreateWorkoutPlan(u, r) ==
    /\ calls < MaxCalls
    /\ calls' = calls + 1
    /\ conversation_context' =
           [conversation_context EXCEPT !["trainer"][u] =
               ContextAfter(@, calls + 1, r.kind # "raises", TRUE)]
    /\ plan_result' = [plan_result EXCEPT ![u] = PlanOf(r)]
    /\ UNCHANGED <<core, chat, auth>>

\* Any sequence of get_response and reset_memory calls on the two agents.
NextAgent ==
    \/ \E a \in Agents, u \in Users, ok \in BOOLEAN : GetResponse(a, u, ok)
    \/ \E a \in Agents, u \in Users : ResetMemory(a, u)

SpecAgent == Init /\ [][NextAgent]_vars

\* Any sequence of create_workout_plan calls.
NextPlanner ==
    \E u \in Users, r \in PlanReplies : PlannerCreateWorkoutPlan(u, r)

SpecPlanner == Init /\ [][NextPlanner]_vars

\* -------------------------------------------------------- credential store
\* (src/src/tools/calendar/auth.py)

\* What get_credentials finds at the token path: no file; a file that cannot
\* be opened or unpickled; a pickle of something that is not Credentials;
\* valid credentials; expired ones with and without a refresh token; and
\* credentials that are neither valid nor expired (no access token).
TokenStates ==
    {"missing", "unreadable", "wrong_type", "valid", "expired_refreshable",
     "expired_no_refresh", "invalid"}

ReturnedNone == [status |-> "returned", creds |-> "None"]

\* A get_credentials that hands out refreshed credentials it could not save.
CredentialsOfUnsaved(token, refresh_ok, save_ok) ==
    IF token = "valid" THEN [status |-> "returned", creds |-> "valid"]
    ELSE IF token = "expired_refreshable" /\ refresh_ok
    THEN [status |-> "returned", creds |-> "refreshed"]
    ELSE ReturnedNone

\* get_credentials, lines 32-67: what it returns.  Every exception of lines
\* 34-64 ends in "return None" (lines 58-60 and 65-67); _save_credentials
\* re-raises its failure (line 117).
CredentialsOf(token, refresh_ok, save_ok) ==
    IF token = "valid" THEN [status |-> "returned", creds |-> "valid"]
    ELSE IF token = "expired_refreshable" /\ refresh_ok /\ save_ok
    THEN [status |-> "returned", creds |-> "refreshed"]
    ELSE ReturnedNone

\* The token file after get_credentials: lines 54-55 replace it by the
\* refreshed credentials; a failed save removes its temporary file only.
TokenAfter(token, refresh_ok, save_ok) ==
    IF token = "expired_refreshable" /\ refresh_ok /\ save_ok
    THEN "valid" ELSE token

\* CalendarAuth.get_credentials(user_id).
GetCredentials(u, refresh_ok, save_ok) ==
    /\ credentials' = [credentials EXCEPT ![u] =
           CredentialsOf(tokens[u], refresh_ok, save_ok)]
    /\ tokens' = [tokens EXCEPT ![u] = TokenAfter(@, refresh_ok, save_ok)]
    /\ UNCHANGED <<core, chat, planner>>

\* The token file of a user changes outside get_credentials: the
\* authorization flow saves one (lines 84-99), its access token expires, the
\* file is removed or damaged.
TokenFileBecomes(u, t) ==
    /\ tokens[u] # t
    /\ tokens' = [tokens EXCEPT ![u] = t]
    /\ UNCHANGED <<core, chat, planner, credentials>>

NextAuth ==
    \/ \E u \in Users, refresh_ok \in BOOLEAN, save_ok \in BOOLEAN :
          GetCredentials(u, refresh_ok, save_ok)
    \/ \E u \in Users, t \in TokenStates : TokenFileBecomes(u, t)

SpecAuth == Init /\ [][NextAuth]_vars

\* ------------------------------------------------------------ chat handlers
\* The handlers below take what get_credentials returned as their input
\* creds; the token files behind it are those of the section above.
\* (src/src/interfaces/telegram_bot.py; the application handles one update
\* at a time, so a handler runs from its first to its last line in one step)

\* dict.get(key): the value, or FALSE for a missing key (only truth matters).
Get(d, k) == IF k \in DOMAIN d THEN d[k] ELSE FALSE

\* d[key] = value.
Put(d, k, v) == [x \in DOMAIN d \cup {k} |-> IF x = k THEN v ELSE d[x]]

\* CalendarManager.__init__, lines 42-46: every object has its own registry.
NewCalendarManager(u) ==
    [user |-> u, user_locks |-> <<>>, operation_lock |-> None]

Handled(u, d, r) ==
    /\ updates < MaxUpdates
    /\ updates' = updates + 1
    /\ user_data' = [user_data EXCEPT ![u] = d]
    /\ replies' = [replies EXCEPT ![u] = r]

\* /start_plan
StartWorkoutPlan(u) ==
    /\ Handled(u, Put(user_data[u], "creating_profile", TRUE), "describe yourself")
    /\ UNCHANGED <<core, managers, planner, auth>>

\* Free text: parse_user_profile asks the profiler agent and returns a
\* profile or raises.
HandleProfileCreation(u, parsed) ==
    /\ IF ~Get(user_data[u], "creating_profile")
       THEN /\ Handled(u, user_data[u], "use /start_plan")
            /\ UNCHANGED <<conversation_context, calls>>
       ELSE /\ calls' = calls + 1
            /\ conversation_context' =
                   [conversation_context EXCEPT !["profiler"][u] =
                       ContextAfter(@, calls + 1, parsed, Keeps("profiler"))]
            /\ IF parsed
               THEN Handled(u, Put(Put(user_data[u], "user_profile", TRUE),
                                   "creating_profile", FALSE), "profile recorded")
               ELSE Handled(u, user_data[u], "try again")
    /\ UNCHANGED <<core, managers, plan_result, auth>>

\* /create_plan: the planner answers r; the plan it returns (its number of
\* workout days) is stored once every part of it has been sent.
CreateWorkoutPlan(u, r, sent) ==
    /\ IF "user_profile" \notin DOMAIN user_data[u]
       THEN /\ Handled(u, user_data[u], "create your profile first")
            /\ UNCHANGED planner
       ELSE /\ calls' = calls + 1
            /\ conversation_context' =
                   [conversation_context EXCEPT !["trainer"][u] =
                       ContextAfter(@, calls + 1, r.kind # "raises", TRUE)]
            /\ plan_result' = [plan_result EXCEPT ![u] = PlanOf(r)]
            /\ IF sent /\ PlanOf(r).status = "returned"
               THEN Handled(u, Put(user_data[u], "workout_plan",
                                   PlanOf(r).workouts), "use /connect_calendar")
               ELSE Handled(u, user_data[u], "error creating plan")
    /\ UNCHANGED <<core, managers, auth>>

\* /end: reset_conversation_context (line 192) resets both agents for the
\* user, then user_data is cleared.
EndCommand(u) ==
    /\ Handled(u, <<>>, "bye")
    /\ conversation_context' =
           [a \in Agents |-> ResetOne(conversation_context[a], u)]
    /\ UNCHANGED <<core, managers, calls, plan_result, auth>>

\* "HH:MM": with a plan and credentials, line 372 constructs a new
\* CalendarManager; the call of lines 394-396 passes the keyword
\* duration_minutes, which suggest_workout_times does not take, so it raises
\* TypeError and the handler of line 412 answers.
HandleTimePreference(u, creds) ==
    /\ IF "workout_plan" \notin DOMAIN user_data[u]
       THEN /\ Handled(u, user_data[u], "create a plan first")
            /\ UNCHANGED managers
       ELSE IF ~creds
       THEN /\ Handled(u, user_data[u], "connect your calendar")
            /\ UNCHANGED managers
       ELSE /\ Handled(u, user_data[u], "something went wrong")
            /\ managers' = Append(managers, NewCalendarManager(u))
    /\ UNCHANGED <<core, planner, auth>>

\* A confirmation handler without the test of line 428.  A selection that
\* does not parse is answered at line 451; otherwise line 440 reads
\* user_data["suggested_times"], a KeyError when nothing was suggested, and
\* past it line 465 raises: both are answered by the handler of line 491.
HandleTimeConfirmationUnguarded(u, valid, creds) ==
    /\ IF ~valid
       THEN Handled(u, user_data[u], "enter valid numbers")
       ELSE IF "suggested_times" \notin DOMAIN user_data[u]
       THEN Handled(u, user_data[u], "could not schedule")
       ELSE IF ~creds
       THEN Handled(u, user_data[u], "use /connect")
       ELSE Handled(u, user_data[u], "could not schedule")
    /\ UNCHANGED <<core, managers, planner, auth>>

\* "1,2,...": without awaiting_time_confirmation the handler answers and
\* returns (lines 428-433).  Past it, line 465 constructs CalendarManager
\* without its config argument, which raises TypeError; the handler of line
\* 491 answers.
HandleTimeConfirmation(u, valid, creds) ==
    /\ IF ~Get(user_data[u], "awaiting_time_confirmation")
       THEN Handled(u, user_data[u], "start over")
       ELSE IF ~valid
       THEN Handled(u, user_data[u], "enter valid numbers")
       ELSE IF ~creds
       THEN Handled(u, user_data[u], "use /connect")
       ELSE Handled(u, user_data[u], "could not schedule")
    /\ UNCHANGED <<core, managers, planner, auth>>

BotNext ==
    \/ \E u \in Users : StartWorkoutPlan(u)
    \/ \E u \in Users, parsed \in BOOLEAN : HandleProfileCreation(u, parsed)
    \/ \E u \in Users, r \in PlanReplies, sent \in BOOLEAN :
          CreateWorkoutPlan(u, r, sent)
    \/ \E u \in Users : EndCommand(u)
    \/ \E u \in Users, creds \in BOOLEAN : HandleTimePreference(u, creds)
    \/ \E u \in Users, valid \in BOOLEAN, creds \in BOOLEAN :
          HandleTimeConfirmation(u, valid, creds)

SpecBot == Init /\ [][BotNext]_vars

\* ---------------------------------------------------------- specification

DaysAheadInputs == {<<>>, <<0>>, <<1>>}

\* len(workout_plan.workouts) of a plan that need not fit the selection.
PlanDays == 2

\* The user ids are interchangeable: caller 1 calls for user 1 and caller 2
\* for either user, which gives the calls of one user and of two users.
LiveUsers(p) == IF p = 1 THEN {1} ELSE Users

Next ==
    \/ \E t \in Instants : Tick(t)
    \/ \E p \in Procs, n \in 0..MaxBatch :
          \E u \in LiveUsers(p), m \in {n, PlanDays} :
              CreateWorkoutEvents(p, u, n, m)
    \/ \E p \in Procs, d \in DaysAheadInputs :
          \E u \in LiveUsers(p) : SuggestWorkoutTimes(p, u, MaxBatch, d)
    \/ \E p \in Procs : AcquireOperationLock(p)
    \/ \E p \in Procs : GetUserLock(p)
    \/ \E p \in Procs : AcquireUserLock(p)
    \/ \E p \in Procs, o \in InsertOutcomes : InsertEvent(p, o)
    \/ \E p \in Procs : CommitReturn(p)
    \/ \E p \in Procs : ReacquireUserLock(p)
    \/ \E p \in Procs, o \in DeleteOutcomes : DeleteEvent(p, o)
    \/ \E p \in Procs : RollbackRaise(p)
    \/ \E p \in Procs, o \in ListOutcomes : ListEvents(p, o)
    \/ \E p \in Procs : SuggestReturn(p)

Spec == Init /\ [][Next]_vars

\* Any step of caller p after its call has started.
Step(p) ==
    \/ AcquireOperationLock(p)
    \/ GetUserLock(p)
    \/ AcquireUserLock(p)
    \/ \E o \in InsertOutcomes : InsertEvent(p, o)
    \/ CommitReturn(p)
    \/ ReacquireUserLock(p)
    \/ \E o \in DeleteOutcomes : DeleteEvent(p, o)
    \/ RollbackRaise(p)
    \/ \E o \in ListOutcomes : ListEvents(p, o)
    \/ SuggestReturn(p)

LiveBatch == 2     \* slots of every call of the fair specification

\* The calls of the fair specification: commits of LiveBatch slots for a plan
\* of as many days, and suggest calls over LiveBatch preferred slots; the
\* clock jumps once, past the threshold, so that held locks are evicted.
NextLive ==
    \/ Tick(cleanup_threshold + 1)
    \/ \E p \in Procs : \E u \in LiveUsers(p) :
          CreateWorkoutEvents(p, u, LiveBatch, LiveBatch)
    \/ \E p \in Procs : \E u \in LiveUsers(p) :
          SuggestWorkoutTimes(p, u, LiveBatch, <<>>)
    \/ \E p \in Procs : Step(p)

\* Every thread keeps being scheduled, every external call comes back, and a
\* thread blocked on a lock that stays free gets it.
SpecLive == Init /\ [][NextLive]_vars /\ \A p \in Procs : WF_vars(Step(p))

\* ------------------------------------------- one suggest_workout_times call
\* The call of one caller alone, from line 208 on, over every small calendar
\* and list of preferred slots.

MaxEvents == 2     \* events on the calendar when the call starts

\* Preferred slots of day 0: 02:00-04:00 and 04:00-05:00.
SlotA == [start |-> 7200, end |-> 14400]
SlotB == [start |-> 14400, end |-> 18000]
\* A preferred slot of day 8, 02:00-04:00: later than every query window.
SlotFar == [start |-> 8 * 86400 + 7200, end |-> 8 * 86400 + 14400]

\* preferred_times arguments: empty, one slot, two slots in either order, and
\* lists with the slot of day 8.
PreferredInputs ==
    {<<>>, <<SlotA>>, <<SlotB>>, <<SlotA, SlotB>>, <<SlotB, SlotA>>,
     <<SlotFar>>, <<SlotA, SlotFar>>}

TimedEvent(k, start, end) ==
    [id |-> <<0, k>>, start |-> start, end |-> end, aware |-> TRUE]

\* An all-day event of day d: "date" values, midnight to midnight.
AllDayEvent(k, d) ==
    [id |-> <<0, k>>, start |-> d * 86400, end |-> (d + 1) * 86400,
     aware |-> FALSE]

\* Events other people and programs put on the calendar.  Against SlotA:
\* ending where it starts, overlapping its start, inside it, around it,
\* starting where it ends (which is SlotB exactly); one starting where SlotB
\* ends; the all-day events of day 0 and of day 1; an event of day 8 inside
\* SlotFar; and one from day 6, 12:00 to day 8, 03:00, which begins inside the
\* default window and ends inside SlotFar.
EventPool ==
    {TimedEvent(1, 3600, 7200), TimedEvent(2, 5400, 9000),
     TimedEvent(3, 9000, 10800), TimedEvent(4, 3600, 16200),
     TimedEvent(5, 14400, 18000), TimedEvent(6, 18000, 21600),
     AllDayEvent(7, 0), AllDayEvent(8, 1),
     TimedEvent(9, 8 * 86400 + 9000, 8 * 86400 + 10800),
     TimedEvent(10, 6 * 86400 + 43200, 8 * 86400 + 10800)}

\* Caller 1 holds the lock of user 1 and is about to query the calendar.
InitSuggest ==
    /\ clock = 0
    /\ user_locks = [u \in {1} |-> [lock |-> 1, last |-> 0]]
    /\ operation_lock = None
    /\ holder = [l \in Procs |-> IF l = 1 THEN 1 ELSE None]
    /\ calendar \in {S \in SUBSET EventPool : Cardinality(S) <= MaxEvents}
    /\ pc = [p \in Procs |-> IF p = 1 THEN "list" ELSE "idle"]
    /\ op = [p \in Procs |-> IF p = 1 THEN "suggest" ELSE "none"]
    /\ user = [p \in Procs |-> IF p = 1 THEN 1 ELSE None]
    /\ times \in {[p \in Procs |-> IF p = 1 THEN t ELSE <<>>] :
                     t \in PreferredInputs}
    /\ plan_len = [p \in Procs |-> 0]
    /\ days_ahead \in {[p \in Procs |-> IF p = 1 THEN d ELSE <<>>] :
                          d \in DaysAheadInputs}
    /\ current_time = [p \in Procs |-> 0]
    /\ user_lock = [p \in Procs |-> IF p = 1 THEN 1 ELSE None]
    /\ event_ids = [p \in Procs |-> <<>>]
    /\ rb = [p \in Procs |-> 0]
    /\ error = [p \in Procs |-> NoError]
    /\ status = [p \in Procs |-> IF p = 1 THEN "running" ELSE "none"]
    /\ result = [p \in Procs |-> <<>>]
    /\ busy_times = [p \in Procs |-> <<>>]
    /\ inserts = [p \in Procs |-> 0]
    /\ deletes = [p \in Procs |-> <<>>]
    /\ delete_failed = [p \in Procs |-> 0]
    /\ queries = [p \in Procs |-> 0]
    /\ user_data = [u \in Users |-> <<>>]
    /\ managers = <<>>
    /\ replies = [u \in Users |-> "none"]
    /\ updates = 0
    /\ conversation_context = [a \in Agents |-> [u \in Users |-> <<>>]]
    /\ calls = 0
    /\ plan_result = [u \in Users |-> NoPlan]
    /\ tokens = [u \in Users |-> "missing"]
    /\ credentials = [u \in Users |-> NoCredentials]

NextSuggest ==
    \/ \E p \in Procs, o \in ListOutcomes : ListEvents(p, o)
    \/ \E p \in Procs : SuggestReturn(p)

SpecSuggest == InitSuggest /\ [][NextSuggest]_vars

\* ------------------------------------------------------------ properties

Finished(p) == pc[p] = "done"
Committing(p) == op[p] = "commit" /\ plan_len[p] = Len(times[p])
Holds(p) == user_lock[p] # None /\ holder[user_lock[p]] = p

\* The identifiers the inserts of indices 0..k-1 of caller p returned.
ReturnedIds(p, k) == [i \in 1..k |-> <<p, i - 1>>]

\* Events on the calendar that an insert of caller p created.
EventsOf(p) == {e \in calendar : e.id[1] = p}

\* An insert call of caller p raised: one more insert was issued than
\* identifiers were returned (a body that cannot be built issues no insert).
InsertFailed(p) == inserts[p] > Len(event_ids[p])

\* C1: when the insert of index k of a batch fails, the call ends having
\* issued exactly k deletes, one per identifier returned by the inserts of
\* indices 0..k-1, and raises the failure of that insert, whether or not a
\* delete failed.
C1_RollbackDeletesAndReraises ==
    \A p \in Procs :
        (Finished(p) /\ Committing(p) /\ status[p] = "raised"
            /\ InsertFailed(p)) =>
            LET k == inserts[p] - 1 IN
            /\ deletes[p] = ReturnedIds(p, k)
            /\ error[p].call = "insert"
            /\ error[p].index = k

\* A batch of three whose third insert failed and whose two deletes both
\* raised.
C1_Witness ==
    \E p \in Procs :
        /\ Finished(p) /\ Committing(p) /\ status[p] = "raised"
        /\ InsertFailed(p)
        /\ inserts[p] = 3
        /\ Len(deletes[p]) = 2
        /\ delete_failed[p] = 2

\* C2: a call that returns has created all n events and returns their n
\* identifiers; a call that raises after deletes that all succeeded leaves no
\* event of its own on the calendar.
C2_AllOrNothing ==
    \A p \in Procs :
        (Finished(p) /\ Committing(p)) =>
            /\ status[p] = "returned" =>
                  /\ result[p] = ReturnedIds(p, Len(times[p]))
                  /\ \A i \in 1..Len(times[p]) :
                        \E e \in calendar : e.id = result[p][i]
            /\ (status[p] = "raised" /\ delete_failed[p] = 0) =>
                  EventsOf(p) = {}

\* Caller p has issued its first insert and not yet its last.
MidBatch(p) ==
    /\ pc[p] = "insert"
    /\ inserts[p] >= 1
    /\ Len(event_ids[p]) < Len(times[p])

\* C3: while one commit of a user is between its first and its last insert,
\* no other commit of the same user issues an insert.
C3_InsertsNotInterleaved ==
    [][\A p, q \in Procs :
          (p # q /\ Committing(p) /\ Committing(q) /\ user[p] = user[q]
              /\ MidBatch(p)) => inserts'[q] = inserts[q]]_vars

\* C4: a commit whose insert failed keeps its lock until its rollback is over.
C4_LockHeldUntilRollbackEnds ==
    \A p \in Procs : pc[p] \in {"relock", "rollback"} => Holds(p)

\* Caller p is about to issue an external call (list, insert or delete).
AtCalendar(p) ==
    \/ pc[p] = "list"
    \/ pc[p] = "insert" /\ Len(event_ids[p]) < Len(times[p])
    \/ pc[p] = "rollback" /\ rb[p] < Len(event_ids[p])

\* C5: two operations of one user are never both at the external calendar.
C5_SerializedPerUser ==
    \A p, q \in Procs :
        (p # q /\ user[p] = user[q]) => ~(AtCalendar(p) /\ AtCalendar(q))

\* C6: two commits of one user that both returned left no two events in the
\* same slot.
C6_NoDoubleBooking ==
    \A p, q \in Procs :
        (p # q /\ user[p] = user[q] /\ Committing(p) /\ Committing(q)
            /\ status[p] = "returned" /\ status[q] = "returned") =>
            \A e \in EventsOf(p), f \in EventsOf(q) :
                ~(e.start = f.start /\ e.end = f.end)

\* The index maps caller p's user to the lock p obtained.
Indexed(p) ==
    /\ user[p] \in DOMAIN user_locks
    /\ user_locks[user[p]].lock = user_lock[p]

\* C7: a lock that its caller holds and that is in the index is still in the
\* index after any step.
C7_HeldHandleStaysIndexed ==
    [][\A p \in Procs : (Holds(p) /\ Indexed(p)) => Indexed(p)']_vars

\* The lock objects in use for user u: the one in the index and those that
\* callers in flight hold or wait for.
LiveHandles(u) ==
    {user_locks[v].lock : v \in {w \in DOMAIN user_locks : w = u}}
        \cup {user_lock[p] : p \in {q \in Procs :
                 user[q] = u /\ pc[q] \in {"lock", "insert", "relock",
                                            "rollback", "list", "filter"}}}

\* C8: no user ever has two lock objects in use.
C8_OneLiveHandlePerUser ==
    \A u \in Users : Cardinality(LiveHandles(u)) <= 1

\* C10: a call of _get_user_lock by a user who has an entry in the index
\* returns the lock of that entry.
C10_OwnEntrySurvivesSweep ==
    [][\A p \in Procs :
          (pc[p] = "registry" /\ pc'[p] = "lock"
              /\ user[p] \in DOMAIN user_locks) =>
              user_lock'[p] = user_locks[user[p]].lock]_vars

\* C9: all the CalendarManager objects (lock registries) that serve the
\* requests of one user are one and the same object.
C9_OneRegistryPerUser ==
    \A i, j \in DOMAIN managers :
        managers[i].user = managers[j].user => i = j

\* C11: the last-used time that the index records for a lock object never
\* decreases while that object stays in the index.
C11_LastUsedNeverDecreases ==
    [][\A u \in DOMAIN user_locks :
          (u \in DOMAIN user_locks'
              /\ user_locks'[u].lock = user_locks[u].lock) =>
              user_locks'[u].last >= user_locks[u].last]_vars

\* The entry of user u is idle for more than the threshold at the time that
\* caller p read.
Stale(p, u) == current_time[p] - user_locks[u].last > cleanup_threshold

\* C12: a call of _get_user_lock removes from the index every entry whose
\* idle time (the call's time minus the entry's last-used time) is greater
\* than 3600, and no entry whose idle time is 3600 or less: a stale entry of
\* another user is gone, a stale entry of the caller's user is replaced by a
\* newly created lock, and every other entry keeps its lock.
C12_SweepRemovesExactlyStale ==
    [][\A p \in Procs :
          (pc[p] = "registry" /\ pc'[p] = "lock") =>
              \A u \in DOMAIN user_locks :
                  /\ (Stale(p, u) /\ u # user[p]) =>
                        u \notin DOMAIN user_locks'
                  /\ (Stale(p, u) /\ u = user[p]) =>
                        user_locks'[u].lock = p
                  /\ ~Stale(p, u) =>
                        /\ u \in DOMAIN user_locks'
                        /\ user_locks'[u].lock = user_locks[u].lock]_vars

\* A caller obtained a lock whose entry a sweep at time 3601 removed.
C12_Witness ==
    \E p, q \in Procs :
        /\ user_lock[p] = p
        /\ user[p] \notin DOMAIN user_locks
        /\ user[q] \in DOMAIN user_locks
        /\ user_locks[user[q]].last = cleanup_threshold + 1

\* Caller p is blocked at a "with user_lock" (line 135 or 151).
Waiting(p) == pc[p] \in {"lock", "relock"} /\ holder[user_lock[p]] # None

\* C13: two commits for different users never use the same lock object, so
\* neither is ever blocked on a lock that the other holds; both can be in
\* their insert loops at once.
C13_DifferentUsersDoNotWait ==
    \A p, q \in Procs :
        (p # q /\ Committing(p) /\ Committing(q) /\ user[p] # user[q]
            /\ user_lock[p] # None) =>
            /\ user_lock[p] # user_lock[q]
            /\ ~(Waiting(p) /\ holder[user_lock[p]] = q)

\* Two commits for different users, each holding its lock between its first
\* and its last insert.
C13_Witness ==
    \E p, q \in Procs :
        /\ p # q /\ user[p] # user[q]
        /\ Committing(p) /\ Committing(q)
        /\ Holds(p) /\ Holds(q)
        /\ MidBatch(p) /\ MidBatch(q)

\* The slot s shares no instant with the busy interval b, or only an endpoint.
Apart(s, b) == s.end <= b.start \/ b.end <= s.start

\* The busy list holds timezone-aware pairs only.
AllAware(busy) == \A i \in 1..Len(busy) : busy[i].aware

\* The slot s is one of the slots returned to caller p.
Suggested(p, s) == \E i \in 1..Len(result[p]) : result[p][i] = s

\* C14: over timezone-aware busy intervals, a slot passes the availability
\* test exactly when it lies apart from every busy interval: it fails when it
\* contains, is contained in or partly overlaps one, and passes when they are
\* disjoint or only touch, and when the busy list is empty.
C14_AvailableIffNoOverlap ==
    \A p \in Procs :
        (op[p] = "suggest" /\ Finished(p) /\ status[p] = "returned"
            /\ AllAware(busy_times[p])) =>
            \A i \in 1..Len(times[p]) :
                Suggested(p, times[p][i]) <=>
                    \A j \in 1..Len(busy_times[p]) :
                        Apart(times[p][i], busy_times[p][j])

\* SlotA passed although one busy interval ends where it starts and another
\* starts where it ends.
C14_Witness ==
    \E p \in Procs :
        /\ op[p] = "suggest" /\ Finished(p) /\ status[p] = "returned"
        /\ Suggested(p, SlotA)
        /\ \E j \in 1..Len(busy_times[p]) : busy_times[p][j].end = SlotA.start
        /\ \E j \in 1..Len(busy_times[p]) : busy_times[p][j].start = SlotA.end

\* C15: a suggest call that returns hands back the preferred slots that lie
\* apart from every busy interval it fetched, each once, in the order in
\* which they were given, and nothing else.
C15_ExactOrderedSubsequence ==
    \A p \in Procs :
        (op[p] = "suggest" /\ Finished(p) /\ status[p] = "returned") =>
            result[p] = SelectSeq(times[p],
                LAMBDA s : \A j \in 1..Len(busy_times[p]) :
                               Apart(s, busy_times[p][j]))

\* Of two preferred slots given later-first, only the earlier one is free.
C15_Witness ==
    \E p \in Procs :
        /\ op[p] = "suggest" /\ Finished(p) /\ status[p] = "returned"
        /\ times[p] = <<SlotB, SlotA>>
        /\ result[p] = <<SlotA>>
        /\ busy_times[p] # <<>>

\* The list call of caller p raised.
QueryFailed(p) == error[p] = HttpError("list", 0)

\* C16: a suggest call whose query failed raises; a suggest call whose query
\* succeeded and found every preferred slot overlapped by a busy interval
\* returns the empty list.
C16_QueryFailureRaisesNoSlotsReturnsEmpty ==
    \A p \in Procs :
        (op[p] = "suggest" /\ Finished(p)) =>
            /\ QueryFailed(p) => status[p] = "raised"
            /\ (~QueryFailed(p)
                  /\ \A i \in 1..Len(times[p]) :
                        \E j \in 1..Len(busy_times[p]) :
                            ~Apart(times[p][i], busy_times[p][j])) =>
                  (status[p] = "returned" /\ result[p] = <<>>)

\* C17: a commit called with a number of slots different from the number of
\* plan days raises in the step of the call, with the calendar, the index,
\* the locks and the counts of external calls as they were, and does nothing
\* afterwards.
C17_MismatchFailsBeforeAnything ==
    [][\A p \in Procs :
          /\ (pc[p] = "idle" /\ op'[p] = "commit"
                /\ plan_len'[p] # Len(times'[p])) =>
                /\ pc'[p] = "done"
                /\ status'[p] = "raised"
                /\ error'[p] = AssertionError
                /\ UNCHANGED <<calendar, registry, holder, user_lock,
                               inserts, deletes, queries>>
          /\ (op[p] = "commit" /\ plan_len[p] # Len(times[p])) =>
                /\ pc'[p] = "done"
                /\ user_lock'[p] = None
                /\ inserts'[p] = 0
                /\ deletes'[p] = <<>>]_vars

\* A commit of the longest batch for a shorter plan has raised, while the
\* other caller holds a lock.
C17_Witness ==
    \E p, q \in Procs :
        /\ op[p] = "commit" /\ Finished(p)
        /\ Len(times[p]) = MaxBatch /\ plan_len[p] = PlanDays
        /\ plan_len[p] # Len(times[p])
        /\ error[p] = AssertionError
        /\ Holds(q)

\* No chat user ever has "awaiting_time_confirmation" set: the only
\* assignment (telegram_bot.py line 408) follows the call of line 394, which
\* raises.  handle_time_confirmation therefore always returns at line 433
\* and never reaches its create_workout_events call of line 477.
ConfirmationNeverAwaited ==
    \A u \in Users : ~Get(user_data[u], "awaiting_time_confirmation")

\* C19: no step of a suggest call changes the set of events on the calendar
\* or issues an insert or a delete, and the call has issued no query before
\* its list call and exactly one from then on, whether it returns or raises.
C19_SuggestOnlyReadsOnce ==
    [][\A p \in Procs :
          (op'[p] = "suggest" /\ pc'[p] # pc[p]) =>
              /\ calendar' = calendar
              /\ inserts'[p] = 0
              /\ deletes'[p] = <<>>
              /\ queries'[p] = IF pc'[p] \in {"filter", "done"} THEN 1 ELSE 0]_vars

\* One suggest call has returned and another has raised the error of its
\* query.
C19_Witness ==
    \E p, q \in Procs :
        /\ op[p] = "suggest" /\ Finished(p) /\ status[p] = "returned"
        /\ op[q] = "suggest" /\ Finished(q) /\ QueryFailed(q)
        /\ queries[p] = 1 /\ queries[q] = 1

\* C20: the caller that holds the registry-wide lock is inside lines 54-62 of
\* _get_user_lock and issues no query, insert or delete in its step; a caller
\* at or waiting for an external call does not hold the registry-wide lock.
C20_NoExternalCallUnderOperationLock ==
    [][\A p \in Procs :
          operation_lock = p =>
              /\ pc[p] = "registry"
              /\ queries'[p] = queries[p]
              /\ inserts'[p] = inserts[p]
              /\ deletes'[p] = deletes[p]]_vars

\* One caller holds its lock with an insert pending while a caller for
\* another user is inside the registry critical section.
C20_Witness ==
    \E p, q \in Procs :
        /\ user[p] # user[q]
        /\ Holds(p) /\ MidBatch(p)
        /\ operation_lock = q /\ pc[q] = "registry"

\* C21: under fair scheduling, with external calls that come back, every
\* caller that waits for its per-user lock gets it, and every call that has
\* started ends by returning or raising.
C21_EveryCallTerminates ==
    \A p \in Procs :
        /\ (pc[p] \in {"lock", "relock"}) ~> Holds(p)
        /\ (pc[p] # "idle") ~> Finished(p)

\* A caller is blocked on the lock that another caller of the same user
\* holds in the middle of its batch.
C21_Witness ==
    \E p, q \in Procs :
        /\ p # q /\ user[p] = user[q]
        /\ pc[p] = "lock" /\ user_lock[p] = user_lock[q]
        /\ Holds(q) /\ MidBatch(q)

\* The event that the insert of index i - 1 of caller p created is on the
\* calendar, at slot i of the call and describing plan day i - 1.
BuiltFrom(p, i) ==
    \E e \in calendar :
        /\ e.id = <<p, i - 1>>
        /\ e.start = times[p][i].start /\ e.end = times[p][i].end
        /\ e.workout = i - 1

\* C22: while a commit is in its insert loop it has issued one insert per
\* identifier accumulated, in index order, the event of index i built from
\* slot i and plan day i; a commit that returned has issued n inserts and no
\* delete and returns the n identifiers in index order.
C22_InsertsInIndexOrder ==
    \A p \in Procs :
        /\ (Committing(p) /\ pc[p] = "insert") =>
              /\ inserts[p] = Len(event_ids[p])
              /\ event_ids[p] = ReturnedIds(p, inserts[p])
              /\ \A i \in 1..inserts[p] : BuiltFrom(p, i)
        /\ (Committing(p) /\ Finished(p) /\ status[p] = "returned") =>
              /\ inserts[p] = Len(times[p])
              /\ deletes[p] = <<>>
              /\ result[p] = ReturnedIds(p, Len(times[p]))
              /\ \A i \in 1..Len(times[p]) : BuiltFrom(p, i)

\* A commit of the longest batch has returned.
C22_Witness ==
    \E p \in Procs :
        /\ Committing(p) /\ Finished(p) /\ status[p] = "returned"
        /\ Len(result[p]) = MaxBatch

\* The number of days the window spans when the default is used only for a
\* call that passes no days_ahead.
DaysAheadIfGiven(d) == IF d = <<>> THEN default_days_ahead ELSE d[1]

\* C23: the busy intervals a suggest call fetched are those of the window
\* from now to now plus the days_ahead the caller passed, an explicit 0
\* included, and the default number of days only when none was passed.
C23_WindowUsesGivenDays ==
    \A p \in Procs :
        (op[p] = "suggest" /\ pc[p] = "filter") =>
            busy_times[p] =
                BusyTimes(calendar, clock,
                          clock + DaysAheadIfGiven(days_ahead[p]) * 86400)

\* C24: once the insert of index k of a commit has failed, the call has
\* issued exactly k + 1 inserts and issues no further insert, for a later
\* index or for index k again; and the call issues a delete only after an
\* iteration of its loop has failed.
C24_LoopStopsAtFirstFailure ==
    [][\A p \in Procs :
          Committing(p) =>
              /\ InsertFailed(p) =>
                    /\ error[p].call = "insert"
                    /\ inserts[p] = error[p].index + 1
                    /\ inserts'[p] = inserts[p]
              /\ deletes'[p] # deletes[p] => error[p] # NoError]_vars

\* The second insert of a batch failed, the remaining slot was never tried
\* and the one accumulated identifier has been deleted.
C24_Witness ==
    \E p \in Procs :
        /\ Committing(p) /\ Finished(p) /\ InsertFailed(p)
        /\ inserts[p] = 2 /\ Len(times[p]) > 2
        /\ Len(deletes[p]) = 1

\* C25: every delete of a commit targets an identifier that an insert of the
\* same call returned, no identifier is deleted twice, deletes are issued
\* only by a call whose loop failed, and the event that was on the calendar
\* before is never removed.
C25_DeletesOnlyOwnReturnedIds ==
    /\ ThirdPartyEvent \in calendar
    /\ \A p \in Procs :
          /\ \A i \in 1..Len(deletes[p]) :
                /\ deletes[p][i][1] = p
                /\ \E j \in 1..Len(event_ids[p]) :
                      event_ids[p][j] = deletes[p][i]
                /\ \A j \in 1..Len(deletes[p]) :
                      deletes[p][j] = deletes[p][i] => j = i
          /\ deletes[p] # <<>> =>
                (error[p] # NoError /\ status[p] # "returned")

\* One commit has rolled back two events while the events of a commit that
\* returned, for the same user, are still on the calendar.
C25_Witness ==
    \E p, q \in Procs :
        /\ p # q /\ user[p] = user[q]
        /\ Finished(p) /\ Len(deletes[p]) = 2 /\ delete_failed[p] = 0
        /\ Finished(q) /\ status[q] = "returned"
        /\ Cardinality(EventsOf(q)) = MaxBatch

\* C26: a commit issues an insert or a delete only in a step that it starts
\* holding the lock that _get_user_lock gave it.
C26_CallsOnlyUnderUserLock ==
    [][\A p \in Procs :
          (inserts'[p] # inserts[p] \/ deletes'[p] # deletes[p]) =>
              Holds(p)]_vars

\* A commit in its rollback loop, holding its lock, with one delete issued
\* and another to come.
C26_Witness ==
    \E p \in Procs :
        /\ pc[p] = "rollback" /\ Holds(p)
        /\ Len(deletes[p]) = 1 /\ Len(event_ids[p]) = 2

\* C27: a call of _get_user_lock whose user has no entry that survives the
\* sweep gets a newly created lock, different from every lock that a caller
\* obtained before; no call of _get_user_lock changes who holds which lock
\* or which lock another caller refers to; and a caller that has finished
\* has released the lock it obtained, evicted or not.
C27_EvictionDetachesOnly ==
    [][\A p \in Procs :
          /\ (pc[p] = "registry" /\ pc'[p] = "lock") =>
                /\ holder' = holder
                /\ \A q \in Procs \ {p} : user_lock'[q] = user_lock[q]
                /\ (user[p] \notin DOMAIN user_locks \/ Stale(p, user[p])) =>
                      \A q \in Procs \ {p} : user_lock'[p] # user_lock[q]
          /\ Finished(p)' => ~Holds(p)']_vars

\* One caller is in the middle of its batch on a lock that was evicted, and
\* the index maps its user to the lock created for a later caller.
C27_Witness ==
    \E p, q \in Procs :
        /\ p # q /\ user[p] = user[q]
        /\ Holds(q) /\ MidBatch(q)
        /\ user[p] \in DOMAIN user_locks
        /\ user_locks[user[p]].lock = user_lock[p]
        /\ user_lock[p] # user_lock[q]

\* C28: entries come into the index only through a call of _get_user_lock
\* for their user; the first call for a user creates the entry with a new
\* lock, and a call for a user whose entry is idle for no more than the
\* threshold returns the lock of that entry and changes nothing of the entry
\* but its timestamp, which becomes the time the call read.
C28_LazyCreateThenSameHandle ==
    [][/\ \A u \in (DOMAIN user_locks') \ (DOMAIN user_locks) :
             \E p \in Procs :
                 pc[p] = "registry" /\ pc'[p] = "lock" /\ user[p] = u
       /\ \A p \in Procs :
             (pc[p] = "registry" /\ pc'[p] = "lock") =>
                 /\ user[p] \notin DOMAIN user_locks =>
                       /\ user_lock'[p] = p
                       /\ user_locks'[user[p]] =
                              [lock |-> p, last |-> current_time[p]]
                 /\ (user[p] \in DOMAIN user_locks /\ ~Stale(p, user[p])) =>
                       /\ user_lock'[p] = user_locks[user[p]].lock
                       /\ user_locks'[user[p]] =
                              [lock |-> user_locks[user[p]].lock,
                               last |-> current_time[p]]]_vars

\* Two callers of one user have obtained the same lock; its entry carries
\* the time that the later call read, one threshold after the start.
C28_Witness ==
    \E p, q \in Procs :
        /\ p # q /\ user[p] = user[q]
        /\ user_lock[p] = p /\ user_lock[q] = p
        /\ user[p] \in DOMAIN user_locks
        /\ user_locks[user[p]] = [lock |-> p, last |-> cleanup_threshold]

\* C29: a call of _get_user_lock for user u adds no entry but u's, and
\* leaves the entry of every other user that is idle for no more than the
\* threshold as it was, lock and timestamp.
C29_OtherEntriesUnchanged ==
    [][\A p \in Procs :
          (pc[p] = "registry" /\ pc'[p] = "lock") =>
              /\ DOMAIN user_locks' \subseteq DOMAIN user_locks \cup {user[p]}
              /\ \A v \in DOMAIN user_locks \ {user[p]} :
                    ~Stale(p, v) =>
                        /\ v \in DOMAIN user_locks'
                        /\ user_locks'[v] = user_locks[v]]_vars

\* The entry of one user still carries time 0 after a call for the other
\* user at time 3600.
C29_Witness ==
    \E u, v \in DOMAIN user_locks :
        /\ u # v
        /\ user_locks[u].last = 0
        /\ user_locks[v].last = cleanup_threshold

\* C30: a call that has finished, by returning or by raising on whichever
\* path, holds no per-user lock and does not hold the registry-wide lock.
C30_NoLockLeaked ==
    \A p \in Procs :
        Finished(p) =>
            /\ operation_lock # p
            /\ \A l \in DOMAIN holder : holder[l] # p

\* A commit whose body could not be built for its third slot, and whose
\* rollback deletes both raised, has finished and its lock is free.
C30_Witness ==
    \E p \in Procs :
        /\ Finished(p) /\ status[p] = "raised"
        /\ error[p] = BodyError(2)
        /\ delete_failed[p] = 2
        /\ holder[user_lock[p]] = None

\* Caller p has started its call and not ended it.
Started(p) == pc[p] \notin {"idle", "done"}

\* C31: the caller that holds the registry-wide lock holds no per-user lock
\* and is not waiting for one; and whenever some call is under way, some
\* caller under way can take its next step (no set of suggest and commit
\* calls is deadlocked).
C31_NoNestedLocksNoDeadlock ==
    /\ \A p \in Procs :
           operation_lock = p =>
               /\ \A l \in DOMAIN holder : holder[l] # p
               /\ pc[p] \notin {"lock", "relock"}
    /\ (\E p \in Procs : Started(p)) =>
           \E p \in Procs : Started(p) /\ ENABLED Step(p)

\* One caller waits for the per-user lock that another caller holds in its
\* rollback, while a third party is not needed: the registry-wide lock is
\* free and the holder can go on.
C31_Witness ==
    \E p, q \in Procs :
        /\ p # q
        /\ Waiting(p) /\ holder[user_lock[p]] = q
        /\ pc[q] = "rollback"
        /\ operation_lock = None

\* The insert of index error[p].index of caller p took effect on the server
\* and the call raised before line 147 recorded an identifier.
InsertLost(p) == error[p].type = "TimeoutError" /\ error[p].call = "insert"

TimeMin(p) == clock
TimeMax(p) == clock + DaysAhead(days_ahead[p]) * 86400

\* The slot s lies entirely outside the query window of caller p.
OutsideWindow(p, s) == s.start >= TimeMax(p) \/ s.end <= TimeMin(p)

\* The event e reaches into the query window of caller p.
InWindow(p, e) == e.end > TimeMin(p) /\ e.start < TimeMax(p)

\* C33 as stated: a preferred slot lying entirely outside the query window
\* is returned by every suggest call that returns, whatever is booked.
C33_OutsideWindowAlwaysReturned ==
    \A p \in Procs :
        (op[p] = "suggest" /\ Finished(p) /\ status[p] = "returned"
            /\ AllAware(busy_times[p])) =>
            \A i \in 1..Len(times[p]) :
                OutsideWindow(p, times[p][i]) => Suggested(p, times[p][i])

\* C33: a preferred slot lying entirely outside the query window is returned
\* exactly when the call returns and the slot lies apart from every event
\* that reaches into the window; events lying entirely outside the window,
\* booked at the time of the slot or not, do not count.
C33_OutsideWindowMeetsFetchedOnly ==
    \A p \in Procs :
        (op[p] = "suggest" /\ Finished(p)) =>
            \A i \in 1..Len(times[p]) :
                OutsideWindow(p, times[p][i]) =>
                    (Suggested(p, times[p][i]) <=>
                        /\ status[p] = "returned"
                        /\ \A e \in calendar :
                               InWindow(p, e) => Apart(times[p][i], e))

\* The slot of day 8 was returned although an event is booked inside it.
C33_Witness ==
    \E p \in Procs :
        /\ op[p] = "suggest" /\ Finished(p) /\ status[p] = "returned"
        /\ OutsideWindow(p, SlotFar) /\ Suggested(p, SlotFar)
        /\ \E e \in calendar : ~Apart(SlotFar, e)

\* C34: no step sets awaiting_time_confirmation unless a suggestion call of
\* that session has returned a non-empty list, which no call of the chat flow
\* does; and a confirmation message in a session where the flag is not set,
\* as in every session /end has cleared, is answered at line 430 and goes no
\* further towards the commit: it constructs no CalendarManager, starts no
\* call of the calendar and leaves the session as it was.
C34_CommitOnlyAfterConfirmedSuggestion ==
    [][\A u \in Users :
          /\ Get(user_data'[u], "awaiting_time_confirmation") =>
                 Get(user_data[u], "awaiting_time_confirmation")
          /\ \A valid, creds \in BOOLEAN :
                (HandleTimeConfirmation(u, valid, creds)
                    /\ ~Get(user_data[u], "awaiting_time_confirmation")) =>
                    /\ replies'[u] = "start over"
                    /\ user_data' = user_data
                    /\ managers' = managers
                    /\ op' = op]_vars

\* A user whose time preference reached the suggestion call (a
\* CalendarManager was constructed for it) ended the session and then sent a
\* confirmation, which was turned away.
C34_Witness ==
    \E u \in Users :
        /\ user_data[u] = <<>>
        /\ replies[u] = "start over"
        /\ \E i \in 1..Len(managers) : managers[i].user = u

\* The plan a caller of create_workout_plan holds: what a WorkoutPlan of
\* _types.py carries besides the profile.
PlanValue(res) ==
    [workouts |-> res.workouts, duration_weeks |-> res.duration_weeks,
     notes |-> res.notes]

\* C36: no create_workout_plan call raises; whenever the request to the
\* language model failed or its answer could not be turned into a plan, the
\* call returned the fixed fallback plan, which has 3 workout days and lasts
\* 4 weeks.
C36_PlannerAlwaysReturnsAPlan ==
    \A u \in Users :
        /\ plan_result[u].status \in {"none", "returned"}
        /\ plan_result[u].cause \in LlmFailures =>
               /\ PlanValue(plan_result[u]) = FallbackPlan
               /\ plan_result[u].workouts = 3
               /\ plan_result[u].duration_weeks = 4

\* One user's plan was generated, the other's is the fallback after an
\* answer that was not JSON, and the two callers hold equal plans.
C36_Witness ==
    \E u, v \in Users :
        /\ plan_result[u].cause = "generated"
        /\ plan_result[v].cause = "not_json"
        /\ plan_result[u].status = "returned"
        /\ plan_result[v].status = "returned"
        /\ PlanValue(plan_result[u]) = PlanValue(plan_result[v])

C39_ContextHoldsLastFive ==
    [][\A a \in Agents, u \in Users :
          LET q == conversation_context[a][u]
              r == conversation_context'[a][u]
          IN /\ Len(r) <= 5
             /\ (Len(q) = 5 /\ r # q /\ r # <<>>) =>
                    \E k \in 1..2 :
                        /\ Len(r) = 5
                        /\ SubSeq(r, 1, 5 - k) = SubSeq(q, k + 1, 5)
                        /\ \A i \in (5 - k + 1)..5 : r[i].n = calls']_vars

\* The profiler's context of a user, which takes one message per call, holds
\* the messages of calls 2 to 6: that of call 1 was dropped.
C39_Witness ==
    \E u \in Users :
        conversation_context["profiler"][u] =
            [i \in 1..5 |-> Message("user", i + 1)]

\* C37: every get_credentials call returns, credentials or None; it returns
\* None when the token file is missing, unreadable, of the wrong type or
\* expired without a refresh token, and when the refresh or the save of the
\* refreshed token fails; it returns credentials only when the stored ones
\* are valid or when they were refreshed and saved.
C37_CredentialsOrNone ==
    [][\A u \in Users, refresh_ok, save_ok \in BOOLEAN :
          GetCredentials(u, refresh_ok, save_ok) =>
              /\ credentials'[u].status = "returned"
              /\ tokens[u] \in {"missing", "unreadable", "wrong_type",
                                "expired_no_refresh"} =>
                     credentials'[u] = ReturnedNone
              /\ (tokens[u] = "expired_refreshable"
                    /\ ~(refresh_ok /\ save_ok)) =>
                     credentials'[u] = ReturnedNone
              /\ credentials'[u] # ReturnedNone =>
                     \/ tokens[u] = "valid" /\ credentials'[u].creds = "valid"
                     \/ /\ tokens[u] = "expired_refreshable"
                        /\ refresh_ok /\ save_ok
                        /\ tokens'[u] = "valid"
                        /\ credentials'[u].creds = "refreshed"]_vars

\* One user was answered None on expired credentials with a refresh token (the
\* refresh or the save failed, the file is as it was); the other user's
\* credentials were refreshed and saved.
C37_Witness ==
    \E u, v \in Users :
        /\ credentials[u] = ReturnedNone /\ tokens[u] = "expired_refreshable"
        /\ credentials[v].creds = "refreshed" /\ tokens[v] = "valid"

====
